---- MODULE Spec2Model ----
(***************************************************************************)
(* Voice registry service (voice-embedding-api/app.py): enrollment with a  *)
(* consistency check, a directory-of-files profile store, and the          *)
(* identification matcher.                                                 *)
(*                                                                         *)
(* Numbers.  Embeddings are two-dimensional integer vectors of length 5    *)
(* (unit vectors scaled by 5).  A cosine similarity is kept in hundredths, *)
(* truncated toward zero, so 0.70 is 70 and 0.82 is 82.                    *)
(***************************************************************************)
EXTENDS Integers, Sequences, FiniteSets, TLC

\* ------------------------------------------------------------------ bounds
\* Number of request slots that may be in flight at once.
NumProcs == 2
\* Number of user_ids uuid4 hands out in one behaviour.
MaxIds == 3
\* Number of JSON tokens one flush of the profile file writes.
ChunkTokens == 5
\* Number of profiles in the registry the ranking is examined over.
MaxStore == 6

\* --------------------------------------------------------------- constants
IDENTIFICATION_THRESHOLD == 82
REQUIRED_PHRASES == 5
CONSISTENCY_THRESHOLD == 70
ENROLLMENT_PHRASES_LEN == 15

Procs == 1..NumProcs
Ids == 1..MaxIds

\* ----------------------------------------------------------- pure helpers
RECURSIVE SqrtFrom(_, _)
SqrtFrom(n, r) == IF (r + 1) * (r + 1) > n THEN r ELSE SqrtFrom(n, r + 1)
\* Integer square root (floor).
ISqrt(n) == SqrtFrom(n, 0)

Dot(a, b) == a[1] * b[1] + a[2] * b[2]

\* sklearn.metrics.pairwise.cosine_similarity([a], [b])[0][0]: both rows are
\* L2-normalised (a zero row stays zero) and multiplied.  In hundredths.
cosine_similarity(a, b) ==
    LET na == Dot(a, a)
        nb == Dot(b, b)
        d  == Dot(a, b)
    IN  IF na = 0 \/ nb = 0 THEN 0
        ELSE LET m == ISqrt((10000 * d * d) \div (na * nb))
             IN  IF d < 0 THEN 0 - m ELSE m

RECURSIVE SeqSum(_)
SeqSum(s) == IF s = <<>> THEN 0 ELSE Head(s) + SeqSum(Tail(s))

RECURSIVE SeqMin(_)
SeqMin(s) == IF Len(s) = 1 THEN s[1]
             ELSE LET m == SeqMin(Tail(s)) IN IF Head(s) <= m THEN Head(s) ELSE m

RECURSIVE SeqMax(_)
SeqMax(s) == IF Len(s) = 1 THEN s[1]
             ELSE LET m == SeqMax(Tail(s)) IN IF Head(s) >= m THEN Head(s) ELSE m

\* statistics.mean, truncated to hundredths.
Mean(s) == SeqSum(s) \div Len(s)

RECURSIVE VecSum(_)
VecSum(es) == IF es = <<>> THEN <<0, 0>>
              ELSE LET r == VecSum(Tail(es))
                   IN  <<Head(es)[1] + r[1], Head(es)[2] + r[2]>>

\* The pairs (i, j), i < j, in the order of the two nested loops.
RECURSIVE PairwiseFrom(_, _, _)
PairwiseFrom(es, i, j) ==
    IF i >= Len(es) THEN <<>>
    ELSE IF j > Len(es) THEN PairwiseFrom(es, i + 1, i + 2)
    ELSE <<cosine_similarity(es[i], es[j])>> \o PairwiseFrom(es, i, j + 1)

PairwiseSimilarities(es) == PairwiseFrom(es, 1, 2)

\* str.lower() on the letters the names use.
LowerChar(c) == CASE c = "A" -> "a"
                  [] c = "B" -> "b"
                  [] c = "L" -> "l"
                  [] OTHER -> c
Lower(s) == [i \in DOMAIN s |-> LowerChar(s[i])]

\* ------------------------------------------------- create_voice_profile
\* Faulty variant of create_voice_profile: the consistency check is left out.
C5_CreateUnchecked(embeddings, user_name, phrase_indices, uid) ==
    LET similarities == PairwiseSimilarities(embeddings)
    IN  [ok |-> TRUE, min_consistency |-> SeqMin(similarities),
         profile |-> << [user_id           |-> uid,
                         user_name         |-> user_name,
                         voice_embedding   |-> VecSum(embeddings),
                         phrase_embeddings |-> embeddings,
                         phrase_indices    |-> phrase_indices,
                         consistency_score |-> Mean(similarities),
                         min_consistency   |-> SeqMin(similarities),
                         embedding_dim     |-> 2] >>]

\* The profile dict; uid is the value uuid4 returned.  voice_embedding is the
\* centroid's direction (the sum of the embeddings): the mean and the L2
\* normalisation scale it by positive factors, which cosine_similarity
\* removes again.  ok = FALSE is the ValueError of inconsistent samples.
create_voice_profile(embeddings, user_name, phrase_indices, uid) ==
    LET similarities    == PairwiseSimilarities(embeddings)
        avg_consistency == Mean(similarities)
        min_consistency == SeqMin(similarities)
        centroid        == VecSum(embeddings)
    IN  IF min_consistency < CONSISTENCY_THRESHOLD
        THEN [ok |-> FALSE, min_consistency |-> min_consistency, profile |-> <<>>]
        ELSE [ok |-> TRUE, min_consistency |-> min_consistency,
              profile |-> << [user_id           |-> uid,
                              user_name         |-> user_name,
                              voice_embedding   |-> centroid,
                              phrase_embeddings |-> embeddings,
                              phrase_indices    |-> phrase_indices,
                              consistency_score |-> avg_consistency,
                              min_consistency   |-> min_consistency,
                              embedding_dim     |-> Len(centroid)] >>]

\* ------------------------------------------------------ json.dump / load
\* A profile file is a sequence of tokens: "{", one token per key, "}".
ProfileKeys == <<"user_id", "user_name", "voice_embedding", "phrase_embeddings",
                 "phrase_indices", "consistency_score", "min_consistency",
                 "embedding_dim">>

BraceOpen  == [k |-> "{", v |-> 0]
BraceClose == [k |-> "}", v |-> 0]

\* json.dump(profile, f): the text the file holds once all of it is written.
JsonDump(profile) ==
    <<BraceOpen>>
    \o [i \in 1..Len(ProfileKeys) |-> [k |-> ProfileKeys[i], v |-> profile[ProfileKeys[i]]]]
    \o <<BraceClose>>

\* Faulty variant of JsonValid: a parser that accepts a truncated document.
C3_JsonValidLenient(text) == Len(text) >= 1 /\ text[1].k = "{"

\* Whether json.load accepts the text: an object that is opened and closed.
JsonValid(text) ==
    /\ Len(text) >= 2
    /\ text[1].k = "{"
    /\ text[Len(text)].k = "}"
    /\ \A i \in 2..(Len(text) - 1) : text[i].k \notin {"{", "}"}

\* json.load(f) of a valid text: the dict of its keys.
JsonLoad(text) ==
    LET body == SubSeq(text, 2, Len(text) - 1)
    IN  [key \in {body[i].k : i \in 1..Len(body)} |->
            (CHOOSE t \in {body[i] : i \in 1..Len(body)} : t.k = key).v]

\* ------------------------------------------------------ identify_speaker
\* Faulty variant of ScoreEntry: the score is the similarity to the centroid
\* alone.
C11_ScoreEntryCentroid(test_embedding, profile) ==
    LET centroid_similarity == cosine_similarity(test_embedding, profile.voice_embedding)
        phrase_similarities ==
            [i \in 1..Len(profile.phrase_embeddings) |->
                cosine_similarity(test_embedding, profile.phrase_embeddings[i])]
    IN  [user_id |-> profile.user_id,
         user_name |-> profile.user_name,
         score |-> centroid_similarity,
         centroid_similarity |-> centroid_similarity,
         max_phrase_similarity |-> SeqMax(phrase_similarities)]

\* One pass of the loop over profiles (lines 166-200): the entry appended to
\* all_scores for a profile.
ScoreEntry(test_embedding, profile) ==
    LET centroid_similarity == cosine_similarity(test_embedding, profile.voice_embedding)
        phrase_similarities ==
            [i \in 1..Len(profile.phrase_embeddings) |->
                cosine_similarity(test_embedding, profile.phrase_embeddings[i])]
        max_phrase_sim == SeqMax(phrase_similarities)
        final_score == IF centroid_similarity >= max_phrase_sim
                       THEN centroid_similarity ELSE max_phrase_sim
    IN  [user_id |-> profile.user_id,
         user_name |-> profile.user_name,
         score |-> final_score,
         centroid_similarity |-> centroid_similarity,
         max_phrase_similarity |-> max_phrase_sim]

\* Faulty variant of BestScan: the first profile scoring above zero is kept.
RECURSIVE C8_BestScanFirst(_, _, _, _)
C8_BestScanFirst(test_embedding, profiles, best_match, best_score) ==
    IF profiles = <<>> THEN [best_match |-> best_match, best_score |-> best_score]
    ELSE LET e == ScoreEntry(test_embedding, Head(profiles))
         IN  IF best_match = <<>> /\ e.score > best_score
             THEN C8_BestScanFirst(test_embedding, Tail(profiles), <<Head(profiles)>>, e.score)
             ELSE C8_BestScanFirst(test_embedding, Tail(profiles), best_match, best_score)

\* Faulty variant of BestScan: a profile replaces the best with a score that is
\* greater or equal, so the last of several equal scores is kept.
RECURSIVE C19_BestScanLast(_, _, _, _)
C19_BestScanLast(test_embedding, profiles, best_match, best_score) ==
    IF profiles = <<>> THEN [best_match |-> best_match, best_score |-> best_score]
    ELSE LET e == ScoreEntry(test_embedding, Head(profiles))
         IN  IF e.score >= best_score
             THEN C19_BestScanLast(test_embedding, Tail(profiles), <<Head(profiles)>>, e.score)
             ELSE C19_BestScanLast(test_embedding, Tail(profiles), best_match, best_score)

\* The best_match / best_score scan: best_score starts at 0.0 and a profile
\* replaces the best only with a strictly greater score.  best_match is a
\* sequence of at most one profile (empty: None).
RECURSIVE BestScan(_, _, _, _)
BestScan(test_embedding, profiles, best_match, best_score) ==
    IF profiles = <<>> THEN [best_match |-> best_match, best_score |-> best_score]
    ELSE LET e == ScoreEntry(test_embedding, Head(profiles))
         IN  IF e.score > best_score
             THEN BestScan(test_embedding, Tail(profiles), <<Head(profiles)>>, e.score)
             ELSE BestScan(test_embedding, Tail(profiles), best_match, best_score)

\* Insert e into s, sorted by non-increasing score, behind every entry whose
\* score is at least e's.
RECURSIVE InsertDesc(_, _)
InsertDesc(s, e) ==
    IF s = <<>> THEN <<e>>
    ELSE IF Head(s).score >= e.score THEN <<Head(s)>> \o InsertDesc(Tail(s), e)
    ELSE <<e>> \o s

\* Faulty variant of SortDesc: an ascending stable sort, reversed (equal scores end
\* in the reverse of their order).
RECURSIVE C10_SortAscendingReversed(_)
C10_SortAscendingReversed(s) ==
    IF s = <<>> THEN <<>>
    ELSE LET rest == C10_SortAscendingReversed(SubSeq(s, 1, Len(s) - 1))
             e    == s[Len(s)]
             hi   == {i \in 1..Len(rest) : rest[i].score > e.score}
         IN  SubSeq(rest, 1, Cardinality(hi)) \o <<e>>
             \o SubSeq(rest, Cardinality(hi) + 1, Len(rest))

\* list.sort(key=score, reverse=True): stable, equal scores keep their order.
RECURSIVE SortDesc(_)
SortDesc(s) ==
    IF s = <<>> THEN <<>>
    ELSE InsertDesc(SortDesc(SubSeq(s, 1, Len(s) - 1)), s[Len(s)])

\* identify_speaker(test_embedding) over the profiles load_all_profiles gave.
\* no_profiles is the early return (None, 0.0, "No profiles in registry").
identify_speaker(test_embedding, profiles) ==
    IF profiles = <<>>
    THEN [match |-> <<>>, score |-> 0, all_scores |-> <<>>, no_profiles |-> TRUE]
    ELSE LET scan == BestScan(test_embedding, profiles, <<>>, 0)
             all_scores == SortDesc([i \in 1..Len(profiles) |->
                                        ScoreEntry(test_embedding, profiles[i])])
         IN  IF scan.best_score >= IDENTIFICATION_THRESHOLD
             THEN [match |-> scan.best_match, score |-> scan.best_score,
                   all_scores |-> all_scores, no_profiles |-> FALSE]
             ELSE [match |-> <<>>, score |-> scan.best_score,
                   all_scores |-> all_scores, no_profiles |-> FALSE]

\* ---------------------------------------------------------------- inputs
\* An uploaded audio: extract_voice_embedding either raises (ok = FALSE, an
\* undecodable file) or returns the speaker's embedding.
Audio(x, y) == [ok |-> TRUE, emb |-> <<x, y>>]
BadAudio == [ok |-> FALSE, emb |-> <<0, 0>>]

BatchEast    == <<Audio(5, 0), Audio(4, 3), Audio(5, 0), Audio(5, 0), Audio(4, 3)>>
BatchNorth   == <<Audio(0, 5), Audio(-3, 4), Audio(0, 5), Audio(0, 5), Audio(-3, 4)>>
BatchNorthEast == <<Audio(3, 4), Audio(4, 3), Audio(3, 4), Audio(3, 4), Audio(4, 3)>>
BatchOutlier == <<Audio(5, 0), Audio(5, 0), Audio(3, 4), Audio(5, 0), Audio(5, 0)>>
BatchShort   == <<Audio(5, 0), Audio(4, 3), Audio(5, 0), Audio(5, 0)>>
BatchBroken  == <<Audio(5, 0), Audio(4, 3), BadAudio, Audio(5, 0), Audio(4, 3)>>

\* The phrase_indices form field, already split at its commas: each field
\* is the sequence of its characters.
RawValid == << <<"0">>, <<" ", "1">>, <<"2">>, <<"3", " ">>, <<"1", "4">> >>
RawHigh  == << <<"0">>, <<"1">>, <<"2">>, <<"3">>, <<"1", "5">> >>
RawNeg   == << <<"-", "1">>, <<"1">>, <<"2">>, <<"3">>, <<"4">> >>
RawFour  == << <<"0">>, <<"1">>, <<"2">>, <<"3">> >>
RawSix   == << <<"0">>, <<"1">>, <<"2">>, <<"3">>, <<"4">>, <<"5">> >>
RawJunk  == << <<"0">>, <<"1">>, <<"x">>, <<"3">>, <<"4">> >>

NameAl      == <<"A", "l">>
NameAlLower == <<"a", "l">>
NameBo      == <<"B", "o">>
NameCy      == <<"c", "y">>

\* Audio(3, 1) is a probe between the phrases of BatchEast, given by its
\* direction only (cosine_similarity normalises its rows).
Probes == {Audio(5, 0), Audio(3, 4), Audio(-5, 0), Audio(3, 1), BadAudio}

\* ------------------------------------------------ int(x.strip()) per field
IsDigit(c) == c \in {"0", "1", "2", "3", "4", "5", "6", "7", "8", "9"}
DigitVal(c) == CASE c = "0" -> 0 [] c = "1" -> 1 [] c = "2" -> 2 [] c = "3" -> 3
                 [] c = "4" -> 4 [] c = "5" -> 5 [] c = "6" -> 6 [] c = "7" -> 7
                 [] c = "8" -> 8 [] c = "9" -> 9

RECURSIVE StripLeft(_)
StripLeft(f) == IF f # <<>> /\ Head(f) = " " THEN StripLeft(Tail(f)) ELSE f
RECURSIVE StripRight(_)
StripRight(f) == IF f # <<>> /\ f[Len(f)] = " "
                 THEN StripRight(SubSeq(f, 1, Len(f) - 1)) ELSE f
Strip(f) == StripRight(StripLeft(f))

RECURSIVE DigitsValue(_, _)
DigitsValue(ds, acc) == IF ds = <<>> THEN acc
                        ELSE DigitsValue(Tail(ds), 10 * acc + DigitVal(Head(ds)))

\* int(s): an optional sign and at least one digit; anything else is the
\* ValueError (ok = FALSE).
ParseInt(f) ==
    LET s      == Strip(f)
        signed == s # <<>> /\ Head(s) \in {"-", "+"}
        ds     == IF signed THEN Tail(s) ELSE s
    IN  IF ds = <<>> \/ \E i \in 1..Len(ds) : ~IsDigit(ds[i])
        THEN [ok |-> FALSE, val |-> 0]
        ELSE [ok |-> TRUE,
              val |-> IF signed /\ Head(s) = "-"
                      THEN 0 - DigitsValue(ds, 0) ELSE DigitsValue(ds, 0)]

\* phrase_idx_list = [int(x.strip()) for x in phrase_indices.split(",")]
ParseIndices(raw) ==
    IF \E i \in 1..Len(raw) : ~ParseInt(raw[i]).ok
    THEN [ok |-> FALSE, list |-> <<>>]
    ELSE [ok |-> TRUE, list |-> [i \in 1..Len(raw) |-> ParseInt(raw[i]).val]]

\* Faulty variant of InvalidIndices: the upper bound is off by one.
C6_InvalidIndicesOffByOne(list) ==
    {i \in 1..Len(list) : list[i] < 0 \/ list[i] > ENROLLMENT_PHRASES_LEN}

\* invalid_indices of register_voice (lines 271-273).
InvalidIndices(list) ==
    {i \in 1..Len(list) : list[i] < 0 \/ list[i] >= ENROLLMENT_PHRASES_LEN}

\* ------------------------------------------------------------------ state
VARIABLES
    files,      \* REGISTRY_DIR: user_id -> [exists, text] of <user_id>.json
    nextId,     \* the next value uuid4 returns
    tmpfs,      \* the temporary .wav files on disk, named <<request, n>>
    running,    \* the coroutine the event loop is executing (0: none)
    pc,         \* each request slot's position
    loc,        \* each request's local variables
    resp,       \* each request's response, once done
    before      \* history: REGISTRY_DIR as it was when the request began

vars == <<files, nextId, tmpfs, running, pc, loc, resp, before>>

Absent == [exists |-> FALSE, text |-> <<>>]
EmptyDir == [u \in Ids |-> Absent]

Loc0 == [kind |-> "none", user_name |-> <<>>, phrase_indices |-> <<>>,
         phrase_idx_list |-> <<>>, skipped |-> <<>>,
         audios |-> <<>>, i |-> 0, embeddings |-> <<>>, temp_files |-> <<>>,
         todo |-> <<>>, profiles |-> <<>>, profile |-> <<>>, written |-> 0,
         user_id |-> 0, test_embedding |-> <<0, 0>>]

Resp0 == [code |-> 0, error |-> "", user_id |-> 0, identified |-> FALSE,
          score |-> 0, ranking |-> <<>>, total |-> 0, voices |-> <<>>,
          min_consistency |-> 0, max_consistency |-> 0]

Error(code, tag) == [Resp0 EXCEPT !.code = code, !.error = tag]

Init ==
    /\ files = EmptyDir
    /\ nextId = 1
    /\ tmpfs = {}
    /\ running = 0
    /\ pc = [p \in Procs |-> "idle"]
    /\ loc = [p \in Procs |-> Loc0]
    /\ resp = [p \in Procs |-> Resp0]
    /\ before = [p \in Procs |-> EmptyDir]

RECURSIVE Perms(_)
\* Every order in which os.listdir may enumerate the names S.
Perms(S) == IF S = {} THEN {<<>>}
            ELSE UNION {{<<x>> \o s : s \in Perms(S \ {x})} : x \in S}

SeqSet(s) == {s[i] : i \in 1..Len(s)}

\* The profiles REGISTRY_DIR holds complete (what a quiescent
\* load_all_profiles returns, as a set).
PersistedIds(dir) == {u \in DOMAIN dir : dir[u].exists /\ JsonValid(dir[u].text)}
Persisted(dir) == {JsonLoad(dir[u].text) : u \in PersistedIds(dir)}

\* ------------------------------------------------------ load_all_profiles
\* The guard under which a request whose enrollment would need a fresh
\* user_id may begin: uuid4 has MaxIds values to hand out.
Enrolling(q) == loc[q].kind = "register" /\ pc[q] \in {"listdir", "read", "reg_await"}
IdBudget == nextId + Cardinality({q \in Procs : Enrolling(q)}) <= MaxIds

\* os.listdir(REGISTRY_DIR): the names present, in some order.
ListDir(p) ==
    /\ pc[p] = "listdir"
    /\ \E order \in Perms({u \in DOMAIN files : files[u].exists}) :
          loc' = [loc EXCEPT ![p].todo = order]
    /\ pc' = [pc EXCEPT ![p] = "read"]
    /\ UNCHANGED <<files, nextId, tmpfs, running, resp, before>>

\* Faulty variant of Loadable: every file that is there is taken as a profile.
C15_LoadableExisting(file) == file.exists

\* Whether open + json.load of one file returns a profile: not when the
\* file is gone or its text is not a JSON document (lines 146-151).
Loadable(file) == file.exists /\ JsonValid(file.text)

\* Faulty variant of ReadNext: a file that does not load is removed from the
\* registry.
C14_ReadNextPruning(p) ==
    /\ pc[p] = "read"
    /\ loc[p].todo # <<>>
    /\ LET name == Head(loc[p].todo)
       IN  IF Loadable(files[name])
           THEN /\ loc' = [loc EXCEPT ![p].todo = Tail(@),
                                      ![p].profiles = Append(@, JsonLoad(files[name].text))]
                /\ UNCHANGED files
           ELSE /\ loc' = [loc EXCEPT ![p].todo = Tail(@),
                                      ![p].skipped = Append(@, name)]
                /\ files' = [files EXCEPT ![name] = Absent]
    /\ UNCHANGED <<nextId, tmpfs, running, pc, resp, before>>

\* One pass of the loop over the listed names: the profile is appended, or
\* the exception is printed (skipped is that log) and the loop goes on.
ReadNext(p) ==
    /\ pc[p] = "read"
    /\ loc[p].todo # <<>>
    /\ LET name == Head(loc[p].todo)
       IN  IF Loadable(files[name])
           THEN loc' = [loc EXCEPT ![p].todo = Tail(@),
                                   ![p].profiles = Append(@, JsonLoad(files[name].text))]
           ELSE loc' = [loc EXCEPT ![p].todo = Tail(@),
                                   ![p].skipped = Append(@, name)]
    /\ UNCHANGED <<files, nextId, tmpfs, running, pc, resp, before>>

Loaded(p) == pc[p] = "read" /\ loc[p].todo = <<>>

\* ---------------------------------------------------------- register_voice
\* Faulty variant of Cleanup: the file of the audio in hand is left behind.
C18_CleanupAllButLast(p, temp_files) ==
    tmpfs' = tmpfs \ {temp_files[i] : i \in 1..(Len(temp_files) - 1)}

\* The finally clause: every path in temp_files that exists is removed.
Cleanup(p, temp_files) == tmpfs' = tmpfs \ SeqSet(temp_files)

\* Lines 246-280: parse and validate; a valid request goes on to
\* load_all_profiles.  The coroutine takes the event loop.
RegisterBegin(p, user_name, raw, audios) ==
    /\ pc[p] = "idle"
    /\ running = 0
    /\ before' = [before EXCEPT ![p] = files]
    /\ LET parsed == ParseIndices(raw)
           l0 == [Loc0 EXCEPT !.kind = "register", !.user_name = user_name,
                              !.phrase_indices = raw,
                              !.phrase_idx_list = parsed.list, !.audios = audios]
           reject(tag) == /\ pc' = [pc EXCEPT ![p] = "done"]
                          /\ resp' = [resp EXCEPT ![p] = Error(400, tag)]
                          /\ loc' = [loc EXCEPT ![p] = l0]
                          /\ UNCHANGED running
       IN  IF ~parsed.ok THEN reject("InvalidFormat")
           ELSE IF Len(audios) # Len(parsed.list) THEN reject("CountMismatch")
           ELSE IF Len(audios) < REQUIRED_PHRASES THEN reject("TooFewSamples")
           ELSE IF InvalidIndices(parsed.list) # {} THEN reject("InvalidIndices")
           ELSE /\ IdBudget
                /\ pc' = [pc EXCEPT ![p] = "listdir"]
                /\ loc' = [loc EXCEPT ![p] = l0]
                /\ running' = p
                /\ UNCHANGED resp
    /\ UNCHANGED <<files, nextId, tmpfs>>

\* Faulty variant of NameTaken: the names are compared as they are written.
C2_NameTakenExact(profiles, user_name) ==
    \E k \in 1..Len(profiles) : profiles[k].user_name = user_name

\* Line 284: whether a loaded profile has the name, compared lower-cased.
NameTaken(profiles, user_name) ==
    \E k \in 1..Len(profiles) : Lower(profiles[k].user_name) = Lower(user_name)

\* Lines 283-296: the duplicate-name check over the loaded profiles; then the
\* first temporary file is created and the coroutine awaits audio.read().
RegisterCheckName(p) ==
    /\ Loaded(p)
    /\ loc[p].kind = "register"
    /\ IF NameTaken(loc[p].profiles, loc[p].user_name)
       THEN /\ pc' = [pc EXCEPT ![p] = "done"]
            /\ resp' = [resp EXCEPT ![p] = Error(400, "DuplicateName")]
            /\ UNCHANGED <<loc, tmpfs>>
       ELSE /\ pc' = [pc EXCEPT ![p] = "reg_await"]
            /\ loc' = [loc EXCEPT ![p].i = 1]
            /\ tmpfs' = tmpfs \cup {<<p, 1>>}
            /\ UNCHANGED resp
    /\ running' = 0
    /\ UNCHANGED <<files, nextId, before>>

\* Lines 296-305, from the resumption after audio.read() to the next await
\* or to the call of save_voice_profile: the temporary file is written and
\* recorded, its embedding extracted; after the last audio the profile is
\* created.  An exception ends the request with 500 after the finally clause.
RegisterAudio(p) ==
    /\ pc[p] = "reg_await"
    /\ running = 0
    /\ LET i == loc[p].i
           audio == loc[p].audios[i]
           temp_files == Append(loc[p].temp_files, <<p, i>>)
           embeddings == Append(loc[p].embeddings, audio.emb)
           made == create_voice_profile(embeddings, loc[p].user_name,
                                        loc[p].phrase_idx_list, nextId)
           raise(tag) == /\ pc' = [pc EXCEPT ![p] = "done"]
                         /\ resp' = [resp EXCEPT ![p] = Error(500, tag)]
                         /\ loc' = [loc EXCEPT ![p].temp_files = temp_files]
                         /\ Cleanup(p, temp_files)
                         /\ running' = 0
                         /\ UNCHANGED nextId
       IN  IF ~audio.ok THEN raise("EmbeddingExtractionFailed")
           ELSE IF i < Len(loc[p].audios)
           THEN /\ loc' = [loc EXCEPT ![p].temp_files = temp_files,
                                      ![p].embeddings = embeddings,
                                      ![p].i = i + 1]
                /\ tmpfs' = tmpfs \cup {<<p, i + 1>>}
                /\ running' = 0
                /\ UNCHANGED <<pc, resp, nextId>>
           ELSE IF ~made.ok THEN raise("InconsistentVoiceSamples")
           ELSE /\ loc' = [loc EXCEPT ![p].temp_files = temp_files,
                                      ![p].embeddings = embeddings,
                                      ![p].profile = made.profile,
                                      ![p].user_id = nextId]
                /\ nextId' = nextId + 1
                /\ pc' = [pc EXCEPT ![p] = "reg_open"]
                /\ running' = p
                /\ UNCHANGED <<resp, tmpfs>>
    /\ UNCHANGED <<files, before>>

\* The except and finally clauses of register_voice after an OSError in
\* save_voice_profile.
RegisterStorageError(p) ==
    /\ pc' = [pc EXCEPT ![p] = "done"]
    /\ resp' = [resp EXCEPT ![p] = Error(500, "StorageError")]
    /\ Cleanup(p, loc[p].temp_files)
    /\ running' = 0
    /\ UNCHANGED <<loc, nextId, before>>

\* Faulty variant of SaveOpen: the profile is written under the user_id of the
\* first enrollment.
C16_SaveOpenReusedId(p) ==
    /\ pc[p] = "reg_open"
    /\ files' = [files EXCEPT ![1] = [exists |-> TRUE, text |-> <<>>]]
    /\ pc' = [pc EXCEPT ![p] = "reg_write"]
    /\ UNCHANGED <<nextId, tmpfs, running, loc, resp, before>>

\* save_voice_profile, line 135: open(profile_path, "w") creates the file
\* empty (or truncates it).
SaveOpen(p) ==
    /\ pc[p] = "reg_open"
    /\ files' = [files EXCEPT ![loc[p].user_id] = [exists |-> TRUE, text |-> <<>>]]
    /\ pc' = [pc EXCEPT ![p] = "reg_write"]
    /\ UNCHANGED <<nextId, tmpfs, running, loc, resp, before>>

\* open raises OSError (no space, no permission): nothing is created.
SaveOpenFault(p) ==
    /\ pc[p] = "reg_open"
    /\ RegisterStorageError(p)
    /\ UNCHANGED files

\* The text of the file after one more flush of json.dump's output.
Flushed(text, written) ==
    SubSeq(text, 1, IF written + ChunkTokens >= Len(text) THEN Len(text)
                    ELSE written + ChunkTokens)

\* save_voice_profile, lines 135-137: json.dump's output reaches the file a
\* buffer at a time, the last of it when the with block closes the file;
\* then register_voice returns its success response (lines 308-327).
SaveWrite(p) ==
    /\ pc[p] = "reg_write"
    /\ LET text == JsonDump(loc[p].profile[1])
           now  == Flushed(text, loc[p].written)
       IN  /\ files' = [files EXCEPT ![loc[p].user_id].text = now]
           /\ loc' = [loc EXCEPT ![p].written = Len(now)]
           /\ IF Len(now) = Len(text)
              THEN /\ pc' = [pc EXCEPT ![p] = "done"]
                   /\ resp' = [resp EXCEPT ![p] =
                                 [Resp0 EXCEPT !.code = 200,
                                               !.user_id = loc[p].user_id,
                                               !.total = Len(loc[p].embeddings),
                                               !.score = loc[p].profile[1].consistency_score]]
                   /\ Cleanup(p, loc[p].temp_files)
                   /\ running' = 0
              ELSE UNCHANGED <<pc, resp, tmpfs, running>>
    /\ UNCHANGED <<nextId, before>>

\* A write or the closing flush raises OSError: the with block closes the
\* file, which stays as far as it was written.
SaveWriteFault(p) ==
    /\ pc[p] = "reg_write"
    /\ RegisterStorageError(p)
    /\ UNCHANGED files

\* ------------------------------------------------------------ delete_voice
\* Faulty variant of DeleteBegin: the existence check is left out.
C7_DeleteBeginNoCheck(p, user_id) ==
    /\ pc[p] = "idle"
    /\ before' = [before EXCEPT ![p] = files]
    /\ loc' = [loc EXCEPT ![p] = [Loc0 EXCEPT !.kind = "delete", !.user_id = user_id]]
    /\ pc' = [pc EXCEPT ![p] = "del_load"]
    /\ UNCHANGED <<files, nextId, tmpfs, running, resp>>

\* Lines 405-410: os.path.exists(profile_path), 404 when it is not there.
DeleteBegin(p, user_id) ==
    /\ pc[p] = "idle"
    /\ before' = [before EXCEPT ![p] = files]
    /\ loc' = [loc EXCEPT ![p] = [Loc0 EXCEPT !.kind = "delete", !.user_id = user_id]]
    /\ IF ~files[user_id].exists
       THEN /\ pc' = [pc EXCEPT ![p] = "done"]
            /\ resp' = [resp EXCEPT ![p] = Error(404, "NotFound")]
       ELSE /\ pc' = [pc EXCEPT ![p] = "del_load"]
            /\ UNCHANGED resp
    /\ UNCHANGED <<files, nextId, tmpfs, running>>

\* Lines 414-415: open and json.load; either may raise (the file is gone, or
\* its text is not a JSON document), which is the 500 of lines 422-425.
DeleteLoad(p) ==
    /\ pc[p] = "del_load"
    /\ LET file == files[loc[p].user_id]
       IN  IF file.exists /\ JsonValid(file.text)
           THEN /\ loc' = [loc EXCEPT ![p].profile = <<JsonLoad(file.text)>>]
                /\ pc' = [pc EXCEPT ![p] = "del_remove"]
                /\ UNCHANGED resp
           ELSE /\ pc' = [pc EXCEPT ![p] = "done"]
                /\ resp' = [resp EXCEPT ![p] = Error(500, "DeleteFailed")]
                /\ UNCHANGED loc
    /\ UNCHANGED <<files, nextId, tmpfs, running, before>>

\* Faulty variant of DeleteRemove: a file that is already gone is no error.
C20_DeleteRemoveForce(p) ==
    /\ pc[p] = "del_remove"
    /\ pc' = [pc EXCEPT ![p] = "done"]
    /\ files' = [files EXCEPT ![loc[p].user_id] = Absent]
    /\ resp' = [resp EXCEPT ![p] = [Resp0 EXCEPT !.code = 200,
                                                 !.user_id = loc[p].user_id]]
    /\ UNCHANGED <<nextId, tmpfs, running, loc, before>>

\* Lines 417-425: os.remove unlinks the file and the success response is
\* returned; when the file is gone it raises, which is the 500.
DeleteRemove(p) ==
    /\ pc[p] = "del_remove"
    /\ pc' = [pc EXCEPT ![p] = "done"]
    /\ IF files[loc[p].user_id].exists
       THEN /\ files' = [files EXCEPT ![loc[p].user_id] = Absent]
            /\ resp' = [resp EXCEPT ![p] = [Resp0 EXCEPT !.code = 200,
                                                         !.user_id = loc[p].user_id]]
       ELSE /\ resp' = [resp EXCEPT ![p] = Error(500, "DeleteFailed")]
            /\ UNCHANGED files
    /\ UNCHANGED <<nextId, tmpfs, running, loc, before>>

\* os.remove raises OSError (the unlink is refused): nothing is removed.
DeleteRemoveFault(p) ==
    /\ pc[p] = "del_remove"
    /\ pc' = [pc EXCEPT ![p] = "done"]
    /\ resp' = [resp EXCEPT ![p] = Error(500, "DeleteFailed")]
    /\ UNCHANGED <<files, nextId, tmpfs, running, loc, before>>

\* ---------------------------------------------------------- identify_voice
Take(s, n) == SubSeq(s, 1, IF n <= Len(s) THEN n ELSE Len(s))

\* Lines 334-335: the temporary file is created and the coroutine awaits
\* audio.read().
IdentifyBegin(p, audio) ==
    /\ pc[p] = "idle"
    /\ running = 0
    /\ before' = [before EXCEPT ![p] = files]
    /\ loc' = [loc EXCEPT ![p] = [Loc0 EXCEPT !.kind = "identify", !.audios = <<audio>>]]
    /\ tmpfs' = tmpfs \cup {<<p, 1>>}
    /\ pc' = [pc EXCEPT ![p] = "id_await"]
    /\ UNCHANGED <<files, nextId, running, resp>>

\* Lines 336-341: the upload is written to the temporary file and its
\* embedding extracted; an exception is the 500 of lines 365-374.
IdentifyAudio(p) ==
    /\ pc[p] = "id_await"
    /\ running = 0
    /\ LET audio == loc[p].audios[1]
       IN  IF ~audio.ok
           THEN /\ pc' = [pc EXCEPT ![p] = "done"]
                /\ resp' = [resp EXCEPT ![p] = Error(500, "EmbeddingExtractionFailed")]
                /\ loc' = [loc EXCEPT ![p].temp_files = <<<<p, 1>>>>]
                /\ Cleanup(p, <<<<p, 1>>>>)
                /\ UNCHANGED running
           ELSE /\ pc' = [pc EXCEPT ![p] = "listdir"]
                /\ loc' = [loc EXCEPT ![p].temp_files = <<<<p, 1>>>>,
                                      ![p].test_embedding = audio.emb]
                /\ running' = p
                /\ UNCHANGED <<resp, tmpfs>>
    /\ UNCHANGED <<files, nextId, before>>

\* The string identify_speaker returns in place of all_scores when no
\* profile was loaded, as the sequence of its characters.
NoProfilesMessage == <<"N", "o", " ", "p", "r", "o", "f", "i", "l", "e", "s", " ",
                       "i", "n", " ", "r", "e", "g", "i", "s", "t", "r", "y">>

\* Faulty variant of IdentifyResponse: five entries on either path.
C12_IdentifyResponseTop5(test_embedding, profiles) ==
    LET r == identify_speaker(test_embedding, profiles)
        all_scores == IF r.no_profiles THEN NoProfilesMessage ELSE r.all_scores
    IN  IF r.match # <<>>
        THEN [Resp0 EXCEPT !.code = 200, !.identified = TRUE,
                           !.user_id = r.match[1].user_id,
                           !.score = r.score,
                           !.ranking = Take(all_scores, 5)]
        ELSE [Resp0 EXCEPT !.code = 200, !.identified = FALSE,
                           !.error = "Voice not recognized",
                           !.score = r.score,
                           !.ranking = Take(all_scores, 5)]

\* Lines 344-363 of identify_voice over identify_speaker's result: the
\* ranking is all_scores[:5] when a match was returned, all_scores[:3]
\* otherwise.
IdentifyResponse(test_embedding, profiles) ==
    LET r == identify_speaker(test_embedding, profiles)
        all_scores == IF r.no_profiles THEN NoProfilesMessage ELSE r.all_scores
    IN  IF r.match # <<>>
        THEN [Resp0 EXCEPT !.code = 200, !.identified = TRUE,
                           !.user_id = r.match[1].user_id,
                           !.score = r.score,
                           !.ranking = Take(all_scores, 5)]
        ELSE [Resp0 EXCEPT !.code = 200, !.identified = FALSE,
                           !.error = "Voice not recognized",
                           !.score = r.score,
                           !.ranking = Take(all_scores, 3)]

\* Lines 344-374 once load_all_profiles has returned.
IdentifyFinish(p) ==
    /\ Loaded(p)
    /\ loc[p].kind = "identify"
    /\ pc' = [pc EXCEPT ![p] = "done"]
    /\ resp' = [resp EXCEPT ![p] = IdentifyResponse(loc[p].test_embedding, loc[p].profiles)]
    /\ Cleanup(p, loc[p].temp_files)
    /\ running' = 0
    /\ UNCHANGED <<files, nextId, loc, before>>

\* ------------------------------- get_voice_registry, health, system_stats
\* Each begins with load_all_profiles; they run on threadpool threads.
ReaderBegin(p, kind) ==
    /\ pc[p] = "idle"
    /\ before' = [before EXCEPT ![p] = files]
    /\ loc' = [loc EXCEPT ![p] = [Loc0 EXCEPT !.kind = kind]]
    /\ pc' = [pc EXCEPT ![p] = "listdir"]
    /\ UNCHANGED <<files, nextId, tmpfs, running, resp>>

\* get_voice_registry, lines 382-399.
RegistryFinish(p) ==
    /\ Loaded(p)
    /\ loc[p].kind = "registry"
    /\ pc' = [pc EXCEPT ![p] = "done"]
    /\ resp' = [resp EXCEPT ![p] =
          [Resp0 EXCEPT !.code = 200,
                        !.total = Len(loc[p].profiles),
                        !.voices = [k \in 1..Len(loc[p].profiles) |->
                            [user_id |-> loc[p].profiles[k].user_id,
                             user_name |-> loc[p].profiles[k].user_name,
                             phrases_count |-> Len(loc[p].profiles[k].phrase_embeddings),
                             consistency_score |-> loc[p].profiles[k].consistency_score]]]]
    /\ UNCHANGED <<files, nextId, tmpfs, running, loc, before>>

\* health, lines 218-225.
HealthFinish(p) ==
    /\ Loaded(p)
    /\ loc[p].kind = "health"
    /\ pc' = [pc EXCEPT ![p] = "done"]
    /\ resp' = [resp EXCEPT ![p] = [Resp0 EXCEPT !.code = 200,
                                                 !.total = Len(loc[p].profiles)]]
    /\ UNCHANGED <<files, nextId, tmpfs, running, loc, before>>

\* get_system_stats, lines 431-450.
StatsFinish(p) ==
    /\ Loaded(p)
    /\ loc[p].kind = "stats"
    /\ pc' = [pc EXCEPT ![p] = "done"]
    /\ LET consistencies == [k \in 1..Len(loc[p].profiles) |->
                                loc[p].profiles[k].consistency_score]
       IN  resp' = [resp EXCEPT ![p] =
              IF loc[p].profiles = <<>>
              THEN [Resp0 EXCEPT !.code = 200]
              ELSE [Resp0 EXCEPT !.code = 200,
                                 !.total = Len(loc[p].profiles),
                                 !.score = Mean(consistencies),
                                 !.min_consistency = SeqMin(consistencies),
                                 !.max_consistency = SeqMax(consistencies)]]
    /\ UNCHANGED <<files, nextId, tmpfs, running, loc, before>>

\* The response is delivered and the slot is free for the next request.
Return(p) ==
    /\ pc[p] = "done"
    /\ pc' = [pc EXCEPT ![p] = "idle"]
    /\ loc' = [loc EXCEPT ![p] = Loc0]
    /\ resp' = [resp EXCEPT ![p] = Resp0]
    /\ before' = [before EXCEPT ![p] = EmptyDir]
    /\ UNCHANGED <<files, nextId, tmpfs, running>>

\* --------------------------------------------------------- specifications
\* No other request is in flight.
Quiet(p) == \A q \in Procs \ {p} : pc[q] = "idle"

AllRaws == {RawValid, RawHigh, RawNeg, RawFour, RawSix, RawJunk}

\* Enrollment, deletion and listing, one request at a time: each is answered
\* before the next begins.
NextSeq ==
    \E p \in Procs :
        \/ \E user_name \in {NameAl, NameAlLower, NameBo}, raw \in AllRaws,
              audios \in {BatchEast, BatchOutlier, BatchShort, BatchBroken} :
              Quiet(p) /\ RegisterBegin(p, user_name, raw, audios)
        \/ Quiet(p) /\ ListDir(p)
        \/ Quiet(p) /\ ReadNext(p)
        \/ Quiet(p) /\ RegisterCheckName(p)
        \/ Quiet(p) /\ RegisterAudio(p)
        \/ Quiet(p) /\ SaveOpen(p)
        \/ Quiet(p) /\ SaveWrite(p)
        \/ \E user_id \in Ids : Quiet(p) /\ DeleteBegin(p, user_id)
        \/ Quiet(p) /\ DeleteLoad(p)
        \/ Quiet(p) /\ DeleteRemove(p)
        \/ Quiet(p) /\ ReaderBegin(p, "registry")
        \/ Quiet(p) /\ RegistryFinish(p)
        \/ Quiet(p) /\ Return(p)
SpecSeq == Init /\ [][NextSeq]_vars

\* Enrollment of up to three speakers and identification, one request at a
\* time.
NextMatch ==
    \E p \in Procs :
        \/ \E user_name \in {NameAl, NameBo, NameCy},
              audios \in {BatchEast, BatchNorth, BatchNorthEast} :
              Quiet(p) /\ RegisterBegin(p, user_name, RawValid, audios)
        \/ Quiet(p) /\ ListDir(p)
        \/ Quiet(p) /\ ReadNext(p)
        \/ Quiet(p) /\ RegisterCheckName(p)
        \/ Quiet(p) /\ RegisterAudio(p)
        \/ Quiet(p) /\ SaveOpen(p)
        \/ Quiet(p) /\ SaveWrite(p)
        \/ \E audio \in Probes : Quiet(p) /\ IdentifyBegin(p, audio)
        \/ Quiet(p) /\ IdentifyAudio(p)
        \/ Quiet(p) /\ IdentifyFinish(p)
        \/ Quiet(p) /\ Return(p)
SpecMatch == Init /\ [][NextMatch]_vars

\* Requests overlap: coroutines interleave at their awaits, threadpool
\* threads at every file operation.
Next ==
    \E p \in Procs :
        \/ \E user_name \in {NameAl, NameAlLower} :
              RegisterBegin(p, user_name, RawValid, BatchEast)
        \/ ListDir(p)
        \/ ReadNext(p)
        \/ RegisterCheckName(p)
        \/ RegisterAudio(p)
        \/ SaveOpen(p)
        \/ SaveWrite(p)
        \/ \E user_id \in Ids : DeleteBegin(p, user_id)
        \/ DeleteLoad(p)
        \/ DeleteRemove(p)
        \/ IdentifyBegin(p, Audio(5, 0))
        \/ IdentifyAudio(p)
        \/ IdentifyFinish(p)
        \/ ReaderBegin(p, "registry")
        \/ RegistryFinish(p)
        \/ Return(p)
Spec == Init /\ [][Next]_vars

\* Enrollments overlapping with every operation that reads the registry
\* through load_all_profiles.
NextWrite ==
    \E p \in Procs :
        \/ RegisterBegin(p, NameAl, RawValid, BatchEast)
        \/ ListDir(p)
        \/ ReadNext(p)
        \/ RegisterCheckName(p)
        \/ RegisterAudio(p)
        \/ SaveOpen(p)
        \/ SaveWrite(p)
        \/ IdentifyBegin(p, Audio(5, 0))
        \/ IdentifyAudio(p)
        \/ IdentifyFinish(p)
        \/ \E kind \in {"registry", "health", "stats"} : ReaderBegin(p, kind)
        \/ RegistryFinish(p)
        \/ HealthFinish(p)
        \/ StatsFinish(p)
        \/ Return(p)
SpecWrite == Init /\ [][NextWrite]_vars

\* Requests arrive one at a time and the storage may fail: open, a write or
\* the unlink raises OSError.
NextFault ==
    \E p \in Procs :
        \/ \E user_name \in {NameAl, NameAlLower}, raw \in {RawValid, RawHigh},
              audios \in {BatchEast, BatchOutlier, BatchBroken} :
              Quiet(p) /\ RegisterBegin(p, user_name, raw, audios)
        \/ Quiet(p) /\ ListDir(p)
        \/ Quiet(p) /\ ReadNext(p)
        \/ Quiet(p) /\ RegisterCheckName(p)
        \/ Quiet(p) /\ RegisterAudio(p)
        \/ Quiet(p) /\ SaveOpen(p)
        \/ Quiet(p) /\ SaveOpenFault(p)
        \/ Quiet(p) /\ SaveWrite(p)
        \/ Quiet(p) /\ SaveWriteFault(p)
        \/ \E user_id \in Ids : Quiet(p) /\ DeleteBegin(p, user_id)
        \/ Quiet(p) /\ DeleteLoad(p)
        \/ Quiet(p) /\ DeleteRemove(p)
        \/ Quiet(p) /\ DeleteRemoveFault(p)
        \/ Quiet(p) /\ Return(p)
SpecFault == Init /\ [][NextFault]_vars

\* Enrollment, with extraction failures and failing writes, and every
\* operation that reads the registry, one request at a time: the registry
\* comes to hold truncated files beside complete ones.
NextRead ==
    \E p \in Procs :
        \/ \E user_name \in {NameAl, NameBo}, audios \in {BatchEast, BatchBroken} :
              Quiet(p) /\ RegisterBegin(p, user_name, RawValid, audios)
        \/ Quiet(p) /\ ListDir(p)
        \/ Quiet(p) /\ ReadNext(p)
        \/ Quiet(p) /\ RegisterCheckName(p)
        \/ Quiet(p) /\ RegisterAudio(p)
        \/ Quiet(p) /\ SaveOpen(p)
        \/ Quiet(p) /\ SaveWrite(p)
        \/ Quiet(p) /\ SaveWriteFault(p)
        \/ \E audio \in {Audio(5, 0), BadAudio} : Quiet(p) /\ IdentifyBegin(p, audio)
        \/ Quiet(p) /\ IdentifyAudio(p)
        \/ Quiet(p) /\ IdentifyFinish(p)
        \/ \E kind \in {"registry", "health", "stats"} : Quiet(p) /\ ReaderBegin(p, kind)
        \/ Quiet(p) /\ RegistryFinish(p)
        \/ Quiet(p) /\ HealthFinish(p)
        \/ Quiet(p) /\ StatsFinish(p)
        \/ Quiet(p) /\ Return(p)
SpecRead == Init /\ [][NextRead]_vars

\* The registry after MaxStore enrollments: speaker u enrolled with the batch
\* StoreBatch(u) under the name "u<u>", each profile as create_voice_profile
\* made it and save_voice_profile wrote it.
StoreIds == 1..MaxStore
StoreBatch(u) == CASE u % 3 = 1 -> BatchEast
                   [] u % 3 = 2 -> BatchNorth
                   [] OTHER -> BatchNorthEast
DigitChar(u) == CHOOSE c \in {"0", "1", "2", "3", "4", "5", "6", "7", "8", "9"} :
                    DigitVal(c) = u
StoreName(u) == <<"u", DigitChar(u)>>
StoredFile(u) ==
    [exists |-> TRUE,
     text |-> JsonDump(create_voice_profile(
                           [i \in 1..Len(StoreBatch(u)) |-> StoreBatch(u)[i].emb],
                           StoreName(u), ParseIndices(RawValid).list, u).profile[1])]

InitRank ==
    /\ files = [u \in StoreIds |-> StoredFile(u)]
    /\ nextId = MaxStore + 1
    /\ tmpfs = {}
    /\ running = 0
    /\ pc = [p \in Procs |-> "idle"]
    /\ loc = [p \in Procs |-> Loc0]
    /\ resp = [p \in Procs |-> Resp0]
    /\ before = [p \in Procs |-> EmptyDir]

\* Identification over a registry of MaxStore profiles that deletions thin
\* out, one request at a time.
NextRank ==
    \E p \in Procs :
        \/ \E audio \in {Audio(5, 0), Audio(-5, 0)} : Quiet(p) /\ IdentifyBegin(p, audio)
        \/ Quiet(p) /\ IdentifyAudio(p)
        \/ Quiet(p) /\ ListDir(p)
        \/ Quiet(p) /\ ReadNext(p)
        \/ Quiet(p) /\ IdentifyFinish(p)
        \/ \E user_id \in StoreIds : Quiet(p) /\ DeleteBegin(p, user_id)
        \/ Quiet(p) /\ DeleteLoad(p)
        \/ Quiet(p) /\ DeleteRemove(p)
        \/ Quiet(p) /\ Return(p)
SpecRank == InitRank /\ [][NextRank]_vars

\* ------------------------------------------------------------------ claims
\* What the claims speak of.
IsDone(p, kind) == pc[p] = "done" /\ loc[p].kind = kind

\* The request passes the validation of lines 246-280.
ValidInputs(raw, audios) ==
    LET parsed == ParseIndices(raw)
    IN  /\ parsed.ok
        /\ Len(audios) = Len(parsed.list)
        /\ Len(audios) >= 5
        /\ \A i \in 1..Len(parsed.list) : parsed.list[i] \in 0..14

\* C1: whatever the interleaving of register_voice requests whose names are
\* equal case-insensitively, the store never holds two profiles whose
\* lower-cased user_name is the same.
C1_UniqueNames ==
    \A u, v \in PersistedIds(files) :
        u # v => Lower(JsonLoad(files[u].text).user_name) # Lower(JsonLoad(files[v].text).user_name)

\* The store the request found holds a profile with the requested name,
\* case-insensitively.
NameInStore(dir, user_name) ==
    \E prof \in Persisted(dir) : Lower(prof.user_name) = Lower(user_name)

\* C2: with no other request in flight, a register_voice call for a name the
\* store already holds case-insensitively is rejected and leaves the store
\* as it was; the error is the duplicate-name error whenever the request
\* passes the input validation that precedes the name check.
C2_DuplicateRejected ==
    \A p \in Procs :
        (IsDone(p, "register") /\ NameInStore(before[p], loc[p].user_name)) =>
            /\ resp[p].code = 400
            /\ files = before[p]
            /\ ValidInputs(loc[p].phrase_indices, loc[p].audios)
                  => resp[p].error = "DuplicateName"

\* "Alice" is enrolled and a valid request for "alice" has been rejected.
C2_Witness ==
    \E p \in Procs :
        /\ IsDone(p, "register")
        /\ resp[p].error = "DuplicateName"
        /\ \E prof \in Persisted(files) :
              /\ prof.user_name # loc[p].user_name
              /\ Lower(prof.user_name) = Lower(loc[p].user_name)

\* A record with every key of the profile.
Complete(record) == DOMAIN record = SeqSet(ProfileKeys)

\* C3: whatever the interleaving of a profile's write with load_all_profiles,
\* every record a reader has loaded is complete (and is the profile the
\* writer created): a partially written file is never returned.
C3_ReadersSeeWholeRecords ==
    \A p \in Procs : \A k \in 1..Len(loc[p].profiles) :
        /\ Complete(loc[p].profiles[k])
        /\ \A q \in Procs :
              (pc[q] = "reg_write" /\ loc[q].user_id = loc[p].profiles[k].user_id)
                  => loc[p].profiles[k] = loc[q].profile[1]

\* A listing came upon a file that is still being written and skipped it.
C3_Witness ==
    \E p, q \in Procs :
        /\ loc[p].kind \in {"registry", "health", "stats", "identify"}
        /\ pc[q] = "reg_write"
        /\ loc[q].user_id \in SeqSet(loc[p].skipped)
        /\ files[loc[q].user_id].exists
        /\ ~JsonValid(files[loc[q].user_id].text)

\* C4: a register_voice or delete_voice call that ends in failure leaves the
\* store exactly as it was when the call began.
C4_FailureLeavesStore ==
    \A p \in Procs :
        (pc[p] = "done" /\ loc[p].kind \in {"register", "delete"} /\ resp[p].code # 200)
            => files = before[p]

\* The embeddings of a batch whose audios all decode.
BatchEmbeddings(audios) == [i \in 1..Len(audios) |-> audios[i].emb]
Decodable(audios) == \A i \in 1..Len(audios) : audios[i].ok

\* C5: a request whose batch has a minimum pairwise similarity below 0.70 is
\* rejected and persists nothing, with the inconsistent-samples failure when
\* the request reaches the consistency check; and every profile in the store
\* has min_consistency >= 0.70, the minimum over its own phrase embeddings.
C5_InconsistentRejected ==
    /\ \A p \in Procs :
          (/\ IsDone(p, "register")
           /\ Decodable(loc[p].audios)
           /\ Len(loc[p].audios) >= 2
           /\ SeqMin(PairwiseSimilarities(BatchEmbeddings(loc[p].audios))) < 70) =>
              /\ resp[p].code # 200
              /\ files = before[p]
              /\ (/\ ValidInputs(loc[p].phrase_indices, loc[p].audios)
                  /\ ~NameInStore(before[p], loc[p].user_name))
                    => (resp[p].code = 500 /\ resp[p].error = "InconsistentVoiceSamples")
    /\ \A prof \in Persisted(files) :
          /\ prof.min_consistency >= 70
          /\ prof.min_consistency = SeqMin(PairwiseSimilarities(prof.phrase_embeddings))

\* A batch with an outlier has been rejected as inconsistent.
C5_Witness ==
    \E p \in Procs :
        /\ IsDone(p, "register")
        /\ resp[p].error = "InconsistentVoiceSamples"
        /\ SeqMin(PairwiseSimilarities(loc[p].embeddings)) < 70

\* C6: a request with unparsable indices, a count mismatch, fewer than 5
\* samples or an index outside 0..14 is rejected with a validation error and
\* changes nothing; and every profile in the store has as many phrase
\* embeddings as phrase indices, at least 5, every index in 0..14.
C6_ValidationRejects ==
    /\ \A p \in Procs :
          (IsDone(p, "register") /\ ~ValidInputs(loc[p].phrase_indices, loc[p].audios)) =>
              /\ resp[p].code = 400
              /\ resp[p].error \in {"InvalidFormat", "CountMismatch",
                                    "TooFewSamples", "InvalidIndices"}
              /\ files = before[p]
              /\ tmpfs = {}
    /\ \A prof \in Persisted(files) :
          /\ Len(prof.phrase_embeddings) = Len(prof.phrase_indices)
          /\ Len(prof.phrase_embeddings) >= 5
          /\ \A i \in 1..Len(prof.phrase_indices) : prof.phrase_indices[i] \in 0..14

\* A request naming phrase 15 has been rejected.
C6_Witness ==
    \E p \in Procs :
        /\ IsDone(p, "register")
        /\ resp[p].error = "InvalidIndices"
        /\ \E i \in 1..Len(loc[p].phrase_idx_list) : loc[p].phrase_idx_list[i] = 15

\* The answered requests of C7: a delete_voice of an absent user_id is the
\* 404 and changes nothing, one of a persisted profile removes exactly that
\* record; a listing shows exactly the profiles the store held.
C7_Answers ==
    \A p \in Procs :
        /\ IsDone(p, "delete") =>
              IF ~before[p][loc[p].user_id].exists
              THEN /\ resp[p].code = 404
                   /\ resp[p].error = "NotFound"
                   /\ files = before[p]
              ELSE /\ resp[p].code = 200
                   /\ files = [before[p] EXCEPT ![loc[p].user_id] = Absent]
        /\ IsDone(p, "registry") =>
              /\ {resp[p].voices[k].user_id : k \in 1..Len(resp[p].voices)}
                    = PersistedIds(before[p])
              /\ resp[p].total = Cardinality(PersistedIds(before[p]))

\* The steps of C7: a record leaves the store only in the last step of a
\* delete_voice of its user_id, and a user_id whose record is gone never
\* has a record again.
C7_Steps ==
    \A u \in Ids :
        /\ (files[u].exists /\ ~files'[u].exists) =>
              \E p \in Procs : /\ loc[p].kind = "delete" /\ loc[p].user_id = u
                               /\ pc[p] = "del_remove" /\ pc'[p] = "done"
        /\ (u < nextId /\ ~files[u].exists /\ files'[u].exists) =>
              \E p \in Procs : pc[p] = "reg_open" /\ loc[p].user_id = u /\ loc[p].written = 0

\* C7: delete_voice of a user_id with no persisted profile fails with
\* NotFound and changes nothing; of an existing profile it removes it, after
\* which no listing shows it and a second delete_voice fails with NotFound.
C7_DeleteNotIdempotent == [](C7_Answers) /\ [][C7_Steps]_vars

\* A second delete_voice of a user_id that had been enrolled and deleted has
\* been answered 404.
C7_Witness ==
    \E p \in Procs :
        /\ IsDone(p, "delete")
        /\ resp[p].code = 404
        /\ loc[p].user_id < nextId

\* The scores of the loaded profiles, and the greatest of them.
Scores(test_embedding, profiles) ==
    {ScoreEntry(test_embedding, profiles[k]).score : k \in 1..Len(profiles)}
MaxScore(test_embedding, profiles) ==
    CHOOSE m \in Scores(test_embedding, profiles) :
        \A x \in Scores(test_embedding, profiles) : m >= x

IdentifyAnswered(p) == IsDone(p, "identify") /\ resp[p].code = 200 /\ loc[p].profiles # <<>>

\* C8: over a non-empty store identification reports 'identified' exactly
\* when the greatest score is at least 0.82, and then the returned profile
\* has that score and the confidence is that score.
C8_DecisionByMax ==
    \A p \in Procs :
        IdentifyAnswered(p) =>
            LET m == MaxScore(loc[p].test_embedding, loc[p].profiles)
            IN  /\ resp[p].identified <=> m >= 82
                /\ resp[p].identified =>
                      /\ resp[p].score = m
                      /\ \E k \in 1..Len(loc[p].profiles) :
                            /\ loc[p].profiles[k].user_id = resp[p].user_id
                            /\ ScoreEntry(loc[p].test_embedding, loc[p].profiles[k]).score = m

\* Three profiles with three different scores, the best not enumerated
\* first, and the probe identified.
C8_Witness ==
    \E p \in Procs :
        /\ IdentifyAnswered(p)
        /\ resp[p].identified
        /\ Len(loc[p].profiles) = 3
        /\ Cardinality(Scores(loc[p].test_embedding, loc[p].profiles)) = 3
        /\ loc[p].profiles[1].user_id # resp[p].user_id

\* C9: when the probe is not identified over a non-empty store, the best
\* score returned is the greatest score of the loaded profiles.
C9_BestScoreIsMax ==
    \A p \in Procs :
        (IdentifyAnswered(p) /\ ~resp[p].identified) =>
            resp[p].score = MaxScore(loc[p].test_embedding, loc[p].profiles)

\* Where a user_id stands in the enumeration.
PosOf(profiles, uid) == CHOOSE k \in 1..Len(profiles) : profiles[k].user_id = uid

\* C10: the ranking identify_speaker produces has one entry per loaded
\* profile, carrying that profile's score, in non-increasing order of score,
\* entries of equal score in the order of the enumeration.
C10_RankingOrder ==
    \A p \in Procs :
        IdentifyAnswered(p) =>
            LET profiles == loc[p].profiles
                ranking == identify_speaker(loc[p].test_embedding, profiles).all_scores
            IN  /\ Len(ranking) = Len(profiles)
                /\ {ranking[i].user_id : i \in 1..Len(ranking)}
                      = {profiles[k].user_id : k \in 1..Len(profiles)}
                /\ \A i \in 1..Len(ranking) :
                      ranking[i].score =
                          ScoreEntry(loc[p].test_embedding,
                                     profiles[PosOf(profiles, ranking[i].user_id)]).score
                /\ \A i, j \in 1..Len(ranking) :
                      i < j =>
                          \/ ranking[i].score > ranking[j].score
                          \/ /\ ranking[i].score = ranking[j].score
                             /\ PosOf(profiles, ranking[i].user_id)
                                   < PosOf(profiles, ranking[j].user_id)

\* Three profiles, two of them with the same score, have been ranked.
C10_Witness ==
    \E p \in Procs :
        /\ IdentifyAnswered(p)
        /\ Len(loc[p].profiles) = 3
        /\ Cardinality(Scores(loc[p].test_embedding, loc[p].profiles)) = 2
        /\ ScoreEntry(loc[p].test_embedding, loc[p].profiles[1]).score
              < ScoreEntry(loc[p].test_embedding, loc[p].profiles[3]).score

\* The similarities of a probe to a profile: to its centroid and to each of
\* its phrase embeddings.
Similarities(test_embedding, profile) ==
    {cosine_similarity(test_embedding, profile.voice_embedding)}
    \cup {cosine_similarity(test_embedding, profile.phrase_embeddings[i]) :
             i \in 1..Len(profile.phrase_embeddings)}

\* C11: the score of every ranked profile, and the confidence of an identified
\* one, is max(centroid_sim, max(phrase_sims)): at least each similarity of
\* the probe to that profile and equal to one of them.
C11_ScoreIsMaxSimilarity ==
    \A p \in Procs :
        IdentifyAnswered(p) =>
            /\ \A i \in 1..Len(resp[p].ranking) :
                  LET e == resp[p].ranking[i]
                      sims == Similarities(loc[p].test_embedding,
                                           loc[p].profiles[PosOf(loc[p].profiles, e.user_id)])
                  IN  /\ e.score \in sims
                      /\ \A x \in sims : e.score >= x
            /\ resp[p].identified =>
                  LET sims == Similarities(loc[p].test_embedding,
                                           loc[p].profiles[PosOf(loc[p].profiles, resp[p].user_id)])
                  IN  /\ resp[p].score \in sims
                      /\ \A x \in sims : resp[p].score >= x

\* A ranking with a profile whose best phrase is closer to the probe than its
\* centroid is, and one whose centroid is closer than each of its phrases.
C11_Witness ==
    \E p \in Procs :
        /\ IdentifyAnswered(p)
        /\ \E i \in 1..Len(resp[p].ranking) :
              /\ resp[p].ranking[i].max_phrase_similarity
                    > resp[p].ranking[i].centroid_similarity
              /\ resp[p].ranking[i].score = resp[p].ranking[i].max_phrase_similarity
        /\ \E i \in 1..Len(resp[p].ranking) :
              /\ resp[p].ranking[i].centroid_similarity
                    > resp[p].ranking[i].max_phrase_similarity
              /\ resp[p].ranking[i].score = resp[p].ranking[i].centroid_similarity

\* The entries of the loaded profiles in the order of the ranking.
FullRanking(p) ==
    SortDesc([k \in 1..Len(loc[p].profiles) |->
                 ScoreEntry(loc[p].test_embedding, loc[p].profiles[k])])
Min(a, b) == IF a <= b THEN a ELSE b

\* The ranking of the response is the first min(K, n) entries of the full
\* ranking of the n loaded profiles, K = 5 when identified and 3 when not.
TopK(p) ==
    LET n == Len(loc[p].profiles)
        K == IF resp[p].identified THEN 5 ELSE 3
    IN  /\ Len(resp[p].ranking) = Min(K, n)
        /\ resp[p].ranking = SubSeq(FullRanking(p), 1, Min(K, n))

C13_EmptyStoreSignal ==
    \A p \in Procs :
        (/\ IsDone(p, "identify")
         /\ loc[p].audios[1].ok
         /\ loc[p].profiles = <<>>) =>
            /\ resp[p].code = 200
            /\ ~resp[p].identified
            /\ identify_speaker(loc[p].test_embedding, loc[p].profiles).no_profiles
            /\ resp[p].ranking = NoProfilesMessage

\* The operations that only read the registry.
ReadKinds == {"identify", "registry", "health", "stats"}

\* An answered read-only request finds the registry as it was when it began.
C14_Answers ==
    \A p \in Procs :
        (pc[p] = "done" /\ loc[p].kind \in ReadKinds) => files = before[p]

\* No step of a read-only request changes a file of the registry.
C14_Steps ==
    \A p \in Procs :
        (/\ loc[p].kind \in ReadKinds \/ loc'[p].kind \in ReadKinds
         /\ <<pc[p], loc[p], resp[p]>> # <<pc'[p], loc'[p], resp'[p]>>)
            => files' = files

\* C14: identification and the listing operations (voice_registry, health,
\* system_stats) leave the set and the content of the persisted profiles
\* unchanged, whatever their outcome.
C14_ReadsLeaveStore == [](C14_Answers) /\ [][C14_Steps]_vars

\* An identification has been answered over a registry that holds a profile
\* and a truncated file, which it skipped.
C14_Witness ==
    \E p \in Procs :
        /\ IsDone(p, "identify")
        /\ resp[p].identified
        /\ loc[p].skipped # <<>>
        /\ PersistedIds(files) # {}

\* The files of a registry that do not load.
CorruptIds(dir) == {u \in DOMAIN dir : dir[u].exists /\ ~JsonValid(dir[u].text)}

\* C15: over a registry with corrupt records beside valid ones,
\* load_all_profiles returns exactly the valid profiles, each once, and skips
\* the corrupt ones; listing, health, statistics and identification of a
\* decodable probe are answered without error.
C15_CorruptSkipped ==
    \A p \in Procs :
        /\ (Loaded(p) \/ (pc[p] = "done" /\ loc[p].kind \in ReadKinds
                                          /\ (loc[p].kind = "identify" => loc[p].audios[1].ok))) =>
              /\ SeqSet(loc[p].profiles) = Persisted(before[p])
              /\ Len(loc[p].profiles) = Cardinality(PersistedIds(before[p]))
              /\ SeqSet(loc[p].skipped) = CorruptIds(before[p])
              /\ Len(loc[p].skipped) = Cardinality(CorruptIds(before[p]))
        /\ (/\ pc[p] = "done" /\ loc[p].kind \in ReadKinds
            /\ loc[p].kind = "identify" => loc[p].audios[1].ok) =>
              /\ resp[p].code = 200
              /\ loc[p].kind \in {"registry", "health"}
                    => resp[p].total = Cardinality(PersistedIds(before[p]))

\* A listing over a registry with a truncated file and a profile has been
\* answered with the profile.
C15_Witness ==
    \E p \in Procs :
        /\ IsDone(p, "registry")
        /\ resp[p].code = 200
        /\ resp[p].total >= 1
        /\ loc[p].skipped # <<>>
        /\ CorruptIds(files) # {}

\* The temporary files of request p that are on disk.
TempFilesOf(p) == {t \in tmpfs : t[1] = p}

\* C18: a register_voice call that reaches the audio loop with an audio whose
\* embedding cannot be extracted, and an identify_voice call with such an
\* audio, end with the extraction failure as a 500, with the registry as the
\* call found it and with none of the call's temporary files left.
C18_ExtractionFailureCleans ==
    \A p \in Procs :
        /\ (/\ IsDone(p, "register")
            /\ ~Decodable(loc[p].audios)
            /\ ValidInputs(loc[p].phrase_indices, loc[p].audios)
            /\ ~NameInStore(before[p], loc[p].user_name)) =>
              /\ resp[p].code = 500
              /\ resp[p].error = "EmbeddingExtractionFailed"
              /\ files = before[p]
              /\ TempFilesOf(p) = {}
        /\ (IsDone(p, "identify") /\ ~loc[p].audios[1].ok) =>
              /\ resp[p].code = 500
              /\ resp[p].error = "EmbeddingExtractionFailed"
              /\ files = before[p]
              /\ TempFilesOf(p) = {}

\* An enrollment failed at its third audio, after three temporary files had
\* been written, over a registry that holds a profile.
C18_Witness ==
    \E p \in Procs :
        /\ IsDone(p, "register")
        /\ resp[p].error = "EmbeddingExtractionFailed"
        /\ Len(loc[p].temp_files) = 3
        /\ PersistedIds(files) # {}

\* Request p is in save_voice_profile.
Saving(p) == pc[p] \in {"reg_open", "reg_write"}

\* The step is the os.remove of a delete_voice(u) that answers success.
DeletedBy(p, u) ==
    /\ loc[p].kind = "delete" /\ loc[p].user_id = u
    /\ pc[p] = "del_remove" /\ pc'[p] = "done" /\ resp'[p].code = 200

\* The states of C16: a user_id is in the hands of one enrollment only, which
\* opens its file when no file of that user_id is there; no file has a
\* user_id that was not handed out; a persisted profile carries the user_id
\* of its file.
C16_States ==
    /\ \A p \in Procs : pc[p] = "reg_open" =>
          /\ loc[p].user_id < nextId
          /\ ~files[loc[p].user_id].exists
    /\ \A p, q \in Procs : (p # q /\ Saving(p) /\ Saving(q)) => loc[p].user_id # loc[q].user_id
    /\ \A u \in Ids : u >= nextId => files[u] = Absent
    /\ \A u \in PersistedIds(files) : JsonLoad(files[u].text).user_id = u

\* The steps of C16: a file appears only as the empty file its enrollment
\* opens; a persisted profile stays as it is, or is removed by the os.remove
\* of a delete_voice of its user_id.
C16_Steps ==
    \A u \in Ids :
        /\ (~files[u].exists /\ files'[u].exists) =>
              /\ files'[u].text = <<>>
              /\ \E p \in Procs : pc[p] = "reg_open" /\ loc[p].user_id = u
        /\ u \in PersistedIds(files) =>
              \/ files'[u] = files[u]
              \/ files'[u] = Absent /\ \E p \in Procs : DeletedBy(p, u)

\* C16: a persisted profile is written once: no register_voice writes to the
\* record of a user_id that exists, the record does not change once it is
\* complete, and it leaves the store only by a delete_voice of its user_id.
C16_WrittenOnce == [](C16_States) /\ [][C16_Steps]_vars

\* A profile has been deleted while another is in the store.
C16_Witness ==
    \E p \in Procs :
        /\ IsDone(p, "delete")
        /\ resp[p].code = 200
        /\ PersistedIds(files) # {}

\* At the json.load of delete_voice the file is not a half-written record.
C17_Steps ==
    \A p \in Procs :
        (loc[p].kind = "delete" /\ pc[p] = "del_load" /\ pc'[p] # pc[p]) =>
            ~(files[loc[p].user_id].exists /\ ~JsonValid(files[loc[p].user_id].text))

\* C17: a delete_voice(user_id) that overlaps the register_voice still
\* writing that record never reads the incomplete record: it answers
\* NotFound or removes the complete profile.
C17_DeleteNeverReadsPartial == [][C17_Steps]_vars

\* C19: an identified profile is the first entry of the returned ranking,
\* with the same user_id and score, also when several profiles have the
\* maximum score.
C19_MatchHeadsRanking ==
    \A p \in Procs :
        (IdentifyAnswered(p) /\ resp[p].identified) =>
            /\ resp[p].ranking # <<>>
            /\ resp[p].ranking[1].user_id = resp[p].user_id
            /\ resp[p].ranking[1].score = resp[p].score

\* A probe has been identified over three profiles of which the last two
\* enumerated have the maximum score.
C19_Witness ==
    \E p \in Procs :
        /\ IdentifyAnswered(p)
        /\ resp[p].identified
        /\ Len(loc[p].profiles) = 3
        /\ ScoreEntry(loc[p].test_embedding, loc[p].profiles[1]).score < resp[p].score
        /\ ScoreEntry(loc[p].test_embedding, loc[p].profiles[2]).score = resp[p].score
        /\ ScoreEntry(loc[p].test_embedding, loc[p].profiles[3]).score = resp[p].score

\* The states of C20: two answered delete_voice calls of one user_id have
\* not both succeeded.
C20_States ==
    \A p, q \in Procs :
        (/\ p # q /\ IsDone(p, "delete") /\ IsDone(q, "delete")
         /\ loc[p].user_id = loc[q].user_id)
            => ~(resp[p].code = 200 /\ resp[q].code = 200)

\* The steps of C20: a delete_voice that answers success removes, in that
\* step, the file of its user_id, which was there, and no other; any other
\* step of a delete_voice changes no file; a file that appears is the empty
\* file of an enrollment, never one that was removed.
C20_Steps ==
    /\ \A p \in Procs :
          (loc[p].kind = "delete" /\ pc'[p] # pc[p]) =>
              IF pc'[p] = "done" /\ resp'[p].code = 200
              THEN /\ files[loc[p].user_id].exists
                   /\ files' = [files EXCEPT ![loc[p].user_id] = Absent]
              ELSE files' = files
    /\ \A u \in Ids :
          (~files[u].exists /\ files'[u].exists) =>
              \E p \in Procs : pc[p] = "reg_open" /\ loc[p].user_id = u /\ loc[p].written = 0

\* C20: of overlapping delete_voice calls on one existing user_id at most one
\* answers success, the profile is removed once, and every other profile is
\* left as it is.
C20_OneDeleteSucceeds == [](C20_States) /\ [][C20_Steps]_vars

\* Two overlapping delete_voice calls on one user_id have been answered, one
\* with success and one with the failure of its os.remove, while another
\* profile is in the store.
C20_Witness ==
    \E p, q \in Procs :
        /\ IsDone(p, "delete") /\ IsDone(q, "delete")
        /\ loc[p].user_id = loc[q].user_id
        /\ resp[p].code = 200
        /\ resp[q].code = 500
        /\ PersistedIds(files) # {}
====
